---- MODULE Spec2Model ----
\* Model of the bencoded integer parser, src/parsers/integer.rs.
\* integer::parse reads bencoded bytes from a ByteReader and writes JSON bytes
\* to a Writer.  One action models one iteration of the `loop` of parse.
EXTENDS Integers, Sequences, FiniteSets, TLC

\* -------------------------------------------------------------------------
\* Bounds

\* Longest input stream drawn exhaustively from Bytes.
MaxLen == 4

\* Calls of parse made on one reader/writer pair.
MaxCalls == 2

\* -------------------------------------------------------------------------
\* Bytes.  A byte is its ASCII code.

BYTE_I == 105

BYTE_A == 97

BYTE_MINUS == 45

BYTE_ZERO == 48

BYTE_NINE == 57

BENCODE_END_INTEGER == 101

\* One byte of every class the automaton distinguishes: the marker, the sign,
\* the digit zero, a non-zero digit, the terminator, and a byte that is none
\* of them.
Bytes == {BYTE_I, BYTE_MINUS, BYTE_ZERO, 49, BENCODE_END_INTEGER, BYTE_A}

\* char.is_ascii_digit()
is_ascii_digit(byte) == byte >= BYTE_ZERO /\ byte <= BYTE_NINE

\* Option<u8>
None == <<>>

Some(byte) == <<byte>>

\* -------------------------------------------------------------------------
\* Input streams

RECURSIVE SeqsOfLen(_)
SeqsOfLen(n) ==
    IF n = 0 THEN {<<>>}
    ELSE {Append(s, b) : s \in SeqsOfLen(n - 1), b \in Bytes}

\* The inputs of the unit tests and of the specification's examples that are
\* longer than MaxLen or use other digits than Bytes holds, and streams of
\* two integers for successive calls.
ExampleInputs ==
    { <<105, 52, 50, 101>>,                 \* i42e
      <<105, 52, 50>>,                      \* i42
      <<105, 52>>,                          \* i4
      <<105, 45, 48, 48, 101>>,             \* i-00e
      <<105, 45, 48, 53, 101>>,             \* i-05e
      <<105, 45, 49, 48, 48, 101>>,         \* i-100e
      <<120, 52, 50, 101>>,                 \* x42e
      <<105, 48, 101, 105, 48, 101>>,       \* i0ei0e
      <<105, 48, 101, 105, 53, 101>>,       \* i0ei5e
      <<105, 48, 101, 105, 49, 48, 101>> }  \* i0ei10e

Inputs == (UNION {SeqsOfLen(n) : n \in 0..MaxLen}) \cup ExampleInputs

\* -------------------------------------------------------------------------
\* State

VARIABLES
    input,                \* the bytes the reader's source holds
    in_pos,               \* ByteReader::input_byte_counter
    output,               \* the bytes the writer has received
    out_pos,              \* Writer::output_byte_counter
    pc,                   \* "idle", "loop" (inside parse), "returned"
    state,                \* parse: let mut state
    first_digit_is_zero,  \* parse: let mut first_digit_is_zero
    result,               \* what the last call of parse returned
    last_read,            \* outcome of the last reader.read_byte()
    in_start,             \* in_pos when the current call began
    out_start,            \* out_pos when the current call began
    reads,                \* read_byte attempts made by the current call
    calls                 \* calls of parse begun so far

vars == <<input, in_pos, output, out_pos, pc, state, first_digit_is_zero,
          result, last_read, in_start, out_start, reads, calls>>

StateExpecting == {"Start", "DigitOrSign", "DigitAfterSign", "DigitOrEnd"}

ErrorKinds == {"Io", "UnexpectedEndOfInputParsingInteger",
               "UnexpectedByteParsingInteger",
               "LeadingZerosInIntegersNotAllowed"}

\* ReadContext / WriteContext without latest_bytes
Context(byte, pos) == [byte |-> byte, pos |-> pos]

NoContext == Context(None, 0)

NoResult == [kind |-> "None", read |-> NoContext, write |-> NoContext]

Ok == [kind |-> "Ok", read |-> NoContext, write |-> NoContext]

\* Error::Io(err): wraps the io::Error, carries no contexts
Io == [kind |-> "Io", read |-> NoContext, write |-> NoContext]

\* A call that unwinds instead of returning.  No path of parse produces it.
Panic == [kind |-> "Panic", read |-> NoContext, write |-> NoContext]

\* Error::<kind>(ReadContext { byte: Some(byte), pos: reader.input_byte_counter() },
\*               WriteContext { byte: Some(byte), pos: writer.output_byte_counter() })
ErrorValue_PosOfByte(kind, byte, rpos, wpos) ==
    [kind |-> kind, read |-> Context(Some(byte), rpos - 1),
                    write |-> Context(Some(byte), wpos)]

ErrorValue(kind, byte, rpos, wpos) ==
    [kind |-> kind, read |-> Context(Some(byte), rpos),
                    write |-> Context(Some(byte), wpos)]

\* -------------------------------------------------------------------------
\* Reader and writer (crate::rw)

\* ByteReader::read_byte on a source holding `bytes`, `pos` of them consumed.
\* `fault` is the source failing with an I/O error other than end-of-stream.
read_byte(bytes, pos, fault) ==
    IF fault THEN [kind |-> "Other", byte |-> 0]
    ELSE IF pos >= Len(bytes) THEN [kind |-> "UnexpectedEof", byte |-> 0]
    ELSE [kind |-> "Byte", byte |-> bytes[pos + 1]]

\* Writer::write_byte: the sink after receiving `byte`.
write_byte(bytes, byte) == Append(bytes, byte)

\* -------------------------------------------------------------------------
\* integer::next_byte

\* next_byte without the arm for end-of-stream: every failed read is Io.
next_byte_EofAsIo(rd, rpos, wpos) ==
    IF rd.kind = "Byte" THEN [ok |-> TRUE, byte |-> rd.byte, err |-> NoResult]
    ELSE [ok |-> FALSE, byte |-> 0, err |-> Io]

\* next_byte without the test of err.kind(): every failed read is reported
\* as the end of the input.
next_byte_NoKindTest(rd, rpos, wpos) ==
    IF rd.kind = "Byte" THEN [ok |-> TRUE, byte |-> rd.byte, err |-> NoResult]
    ELSE [ok |-> FALSE, byte |-> 0,
          err |-> [kind |-> "UnexpectedEndOfInputParsingInteger",
                   read |-> Context(None, rpos),
                   write |-> Context(None, wpos)]]

\* next_byte as its doc comment has it: the end of the input panics.
next_byte_PanicAtEof(rd, rpos, wpos) ==
    IF rd.kind = "Byte" THEN [ok |-> TRUE, byte |-> rd.byte, err |-> NoResult]
    ELSE IF rd.kind = "UnexpectedEof"
    THEN [ok |-> FALSE, byte |-> 0, err |-> Panic]
    ELSE [ok |-> FALSE, byte |-> 0, err |-> Io]

next_byte(rd, rpos, wpos) ==
    IF rd.kind = "Byte" THEN [ok |-> TRUE, byte |-> rd.byte, err |-> NoResult]
    ELSE IF rd.kind = "UnexpectedEof"
    THEN [ok |-> FALSE, byte |-> 0,
          err |-> [kind |-> "UnexpectedEndOfInputParsingInteger",
                   read |-> Context(None, rpos),
                   write |-> Context(None, wpos)]]
    ELSE [ok |-> FALSE, byte |-> 0, err |-> Io]

\* -------------------------------------------------------------------------
\* integer::parse, the arms of `state = match state { ... }`.
\* An arm yields: write (the byte is passed to writer.write_byte), zero (the
\* new first_digit_is_zero), ret ("Continue", "Ok" or the error returned,
\* after the write when there is one) and next (the new state).

Arm(next, write, zero, ret) ==
    [next |-> next, write |-> write, zero |-> zero, ret |-> ret]

\* OnStart with the marker passed on to the writer.
OnStart_MarkerWritten(byte, zero) ==
    Arm("DigitOrSign", TRUE, zero, "Continue")

\* OnStart with the marker validated.
OnStart_MarkerChecked(byte, zero) ==
    IF byte = BYTE_I THEN Arm("DigitOrSign", FALSE, zero, "Continue")
    ELSE Arm("Start", FALSE, zero, "UnexpectedByteParsingInteger")

OnStart(byte, zero) ==
    Arm("DigitOrSign", FALSE, zero, "Continue")

\* OnDigitOrSign with the sign consumed but not written.
OnDigitOrSign_SignNotWritten(byte, zero) ==
    IF byte = BYTE_MINUS THEN Arm("DigitAfterSign", FALSE, zero, "Continue")
    ELSE IF is_ascii_digit(byte)
    THEN Arm("DigitOrEnd", TRUE, IF byte = BYTE_ZERO THEN TRUE ELSE zero,
             "Continue")
    ELSE Arm("DigitOrSign", FALSE, zero, "UnexpectedByteParsingInteger")

OnDigitOrSign(byte, zero) ==
    IF byte = BYTE_MINUS THEN Arm("DigitAfterSign", TRUE, zero, "Continue")
    ELSE IF is_ascii_digit(byte)
    THEN Arm("DigitOrEnd", TRUE, IF byte = BYTE_ZERO THEN TRUE ELSE zero,
             "Continue")
    ELSE Arm("DigitOrSign", FALSE, zero, "UnexpectedByteParsingInteger")

\* OnDigitAfterSign taking the terminator as DigitOrEnd does.
OnDigitAfterSign_EndAccepted(byte, zero) ==
    IF is_ascii_digit(byte)
    THEN Arm("DigitOrEnd", TRUE, IF byte = BYTE_ZERO THEN TRUE ELSE zero,
             "Continue")
    ELSE IF byte = BENCODE_END_INTEGER
    THEN Arm("DigitAfterSign", FALSE, zero, "Ok")
    ELSE Arm("DigitAfterSign", FALSE, zero, "UnexpectedByteParsingInteger")

\* OnDigitAfterSign with a zero after the sign rejected.
OnDigitAfterSign_ZeroRejected(byte, zero) ==
    IF is_ascii_digit(byte) /\ byte # BYTE_ZERO
    THEN Arm("DigitOrEnd", TRUE, zero, "Continue")
    ELSE Arm("DigitAfterSign", FALSE, zero, "UnexpectedByteParsingInteger")

\* OnDigitAfterSign with a further sign accepted.
OnDigitAfterSign_SignAgain(byte, zero) ==
    IF byte = BYTE_MINUS THEN Arm("DigitAfterSign", TRUE, zero, "Continue")
    ELSE IF is_ascii_digit(byte)
    THEN Arm("DigitOrEnd", TRUE, IF byte = BYTE_ZERO THEN TRUE ELSE zero,
             "Continue")
    ELSE Arm("DigitAfterSign", FALSE, zero, "UnexpectedByteParsingInteger")

OnDigitAfterSign(byte, zero) ==
    IF is_ascii_digit(byte)
    THEN Arm("DigitOrEnd", TRUE, IF byte = BYTE_ZERO THEN TRUE ELSE zero,
             "Continue")
    ELSE Arm("DigitAfterSign", FALSE, zero, "UnexpectedByteParsingInteger")

\* OnDigitOrEnd with the terminator passed on to the writer.
OnDigitOrEnd_EndWritten(byte, zero) ==
    IF is_ascii_digit(byte)
    THEN IF byte = BYTE_ZERO /\ zero
         THEN Arm("DigitOrEnd", TRUE, zero, "LeadingZerosInIntegersNotAllowed")
         ELSE Arm("DigitOrEnd", TRUE, zero, "Continue")
    ELSE IF byte = BENCODE_END_INTEGER
    THEN Arm("DigitOrEnd", TRUE, zero, "Ok")
    ELSE Arm("DigitOrEnd", FALSE, zero, "UnexpectedByteParsingInteger")

\* OnDigitOrEnd with the terminator skipped instead of ending the call.
OnDigitOrEnd_EndIgnored(byte, zero) ==
    IF is_ascii_digit(byte)
    THEN IF byte = BYTE_ZERO /\ zero
         THEN Arm("DigitOrEnd", TRUE, zero, "LeadingZerosInIntegersNotAllowed")
         ELSE Arm("DigitOrEnd", TRUE, zero, "Continue")
    ELSE IF byte = BENCODE_END_INTEGER
    THEN Arm("DigitOrEnd", FALSE, zero, "Continue")
    ELSE Arm("DigitOrEnd", FALSE, zero, "UnexpectedByteParsingInteger")

\* OnDigitOrEnd with every digit after a first zero rejected.
OnDigitOrEnd_AnyDigitAfterZero(byte, zero) ==
    IF is_ascii_digit(byte)
    THEN IF zero
         THEN Arm("DigitOrEnd", TRUE, zero, "LeadingZerosInIntegersNotAllowed")
         ELSE Arm("DigitOrEnd", TRUE, zero, "Continue")
    ELSE IF byte = BENCODE_END_INTEGER
    THEN Arm("DigitOrEnd", FALSE, zero, "Ok")
    ELSE Arm("DigitOrEnd", FALSE, zero, "UnexpectedByteParsingInteger")

\* OnDigitOrEnd with the byte written before it is classified.
OnDigitOrEnd_RejectedByteWritten(byte, zero) ==
    IF is_ascii_digit(byte)
    THEN IF byte = BYTE_ZERO /\ zero
         THEN Arm("DigitOrEnd", TRUE, zero, "LeadingZerosInIntegersNotAllowed")
         ELSE Arm("DigitOrEnd", TRUE, zero, "Continue")
    ELSE IF byte = BENCODE_END_INTEGER
    THEN Arm("DigitOrEnd", FALSE, zero, "Ok")
    ELSE Arm("DigitOrEnd", TRUE, zero, "UnexpectedByteParsingInteger")

\* OnDigitOrEnd with a further digit accepted but not written.
OnDigitOrEnd_DigitNotWritten(byte, zero) ==
    IF is_ascii_digit(byte)
    THEN IF byte = BYTE_ZERO /\ zero
         THEN Arm("DigitOrEnd", TRUE, zero, "LeadingZerosInIntegersNotAllowed")
         ELSE Arm("DigitOrEnd", FALSE, zero, "Continue")
    ELSE IF byte = BENCODE_END_INTEGER
    THEN Arm("DigitOrEnd", FALSE, zero, "Ok")
    ELSE Arm("DigitOrEnd", FALSE, zero, "UnexpectedByteParsingInteger")

OnDigitOrEnd(byte, zero) ==
    IF is_ascii_digit(byte)
    THEN IF byte = BYTE_ZERO /\ zero
         THEN Arm("DigitOrEnd", TRUE, zero, "LeadingZerosInIntegersNotAllowed")
         ELSE Arm("DigitOrEnd", TRUE, zero, "Continue")
    ELSE IF byte = BENCODE_END_INTEGER
    THEN Arm("DigitOrEnd", FALSE, zero, "Ok")
    ELSE Arm("DigitOrEnd", FALSE, zero, "UnexpectedByteParsingInteger")

Transition(st, byte, zero) ==
    CASE st = "Start" -> OnStart(byte, zero)
      [] st = "DigitOrSign" -> OnDigitOrSign(byte, zero)
      [] st = "DigitAfterSign" -> OnDigitAfterSign(byte, zero)
      [] st = "DigitOrEnd" -> OnDigitOrEnd(byte, zero)

\* The locals of parse (state, first_digit_is_zero) after the loop consumed
\* the bytes `q` from (st, zero); looping is whether it has not returned.
RECURSIVE locals_after(_, _, _)
locals_after(q, st, zero) ==
    IF q = <<>> THEN [state |-> st, zero |-> zero, looping |-> TRUE]
    ELSE LET arm == Transition(st, Head(q), zero)
         IN  IF arm.ret = "Continue"
             THEN locals_after(Tail(q), arm.next, arm.zero)
             ELSE [state |-> st, zero |-> zero, looping |-> FALSE]

\* The (state, first_digit_is_zero) pairs in which some execution of parse
\* starts an iteration: those reached by consuming up to two bytes.
LoopLocals ==
    LET after == {locals_after(q, "Start", FALSE) :
                      q \in UNION {SeqsOfLen(n) : n \in 0..2}}
    IN  {[state |-> x.state, zero |-> x.zero] : x \in {y \in after : y.looping}}

\* What an arm does, the flag aside: continue or return, next state, write.
ArmOutcome(arm) == [ret |-> arm.ret, next |-> arm.next, write |-> arm.write]

\* parse as a function of the stream, on a reader and a writer that do not
\* fail: the loop of lines 38-138 from position `pos`, with `out` written.
RECURSIVE parse_from(_, _, _, _, _)
parse_from(bytes, pos, st, zero, out) ==
    LET nb == next_byte(read_byte(bytes, pos, FALSE), pos, Len(out))
        arm == Transition(st, nb.byte, zero)
        out2 == IF arm.write THEN write_byte(out, nb.byte) ELSE out
    IN  IF ~nb.ok THEN [kind |-> nb.err.kind, written |-> out]
        ELSE IF arm.ret = "Continue"
        THEN parse_from(bytes, pos + 1, arm.next, arm.zero, out2)
        ELSE [kind |-> arm.ret, written |-> out2]

\* parse on a fresh reader over `bytes` and an empty writer: lines 34-139.
parse(bytes) == parse_from(bytes, 0, "Start", FALSE, <<>>)

\* -------------------------------------------------------------------------
\* Behaviour

Init ==
    /\ input \in Inputs
    /\ in_pos = 0
    /\ output = <<>>
    /\ out_pos = 0
    /\ pc = "idle"
    /\ state = "Start"
    /\ first_digit_is_zero = FALSE
    /\ result = NoResult
    /\ last_read = "None"
    /\ in_start = 0
    /\ out_start = 0
    /\ reads = 0
    /\ calls = 0

\* Call with first_digit_is_zero kept from the call before (a flag that
\* outlives the call).
Call_FlagKept ==
    /\ pc \in {"idle", "returned"}
    /\ calls < MaxCalls
    /\ pc' = "loop"
    /\ state' = "Start"
    /\ result' = NoResult
    /\ last_read' = "None"
    /\ in_start' = in_pos
    /\ out_start' = out_pos
    /\ reads' = 0
    /\ calls' = calls + 1
    /\ UNCHANGED <<input, in_pos, output, out_pos, first_digit_is_zero>>

\* The caller enters parse: lines 35-36.
Call ==
    /\ pc \in {"idle", "returned"}
    /\ calls < MaxCalls
    /\ pc' = "loop"
    /\ state' = "Start"
    /\ first_digit_is_zero' = FALSE
    /\ result' = NoResult
    /\ last_read' = "None"
    /\ in_start' = in_pos
    /\ out_start' = out_pos
    /\ reads' = 0
    /\ calls' = calls + 1
    /\ UNCHANGED <<input, in_pos, output, out_pos>>

\* parse returns `r`.
Return(r) ==
    /\ pc' = "returned"
    /\ result' = r
    /\ UNCHANGED <<state, first_digit_is_zero>>

\* One iteration of the loop of parse: lines 38-138.
Iteration ==
    /\ pc = "loop"
    /\ \E read_fault \in BOOLEAN, write_fault \in BOOLEAN :
        LET rd == read_byte(input, in_pos, read_fault)
            nb == next_byte(rd, in_pos, out_pos)
            arm == Transition(state, nb.byte, first_digit_is_zero)
            wrote == arm.write /\ ~write_fault
        IN  /\ last_read' = rd.kind
            /\ reads' = reads + 1
            /\ IF ~nb.ok
               THEN /\ Return(nb.err)
                    /\ UNCHANGED <<in_pos, output, out_pos>>
               ELSE /\ in_pos' = in_pos + 1
                    /\ output' = IF wrote THEN write_byte(output, nb.byte)
                                           ELSE output
                    /\ out_pos' = IF wrote THEN out_pos + 1 ELSE out_pos
                    /\ IF arm.write /\ write_fault
                       THEN Return(Io)
                       ELSE IF arm.ret = "Continue"
                       THEN /\ state' = arm.next
                            /\ first_digit_is_zero' = arm.zero
                            /\ UNCHANGED <<pc, result>>
                       ELSE IF arm.ret = "Ok"
                       THEN Return(Ok)
                       ELSE Return(ErrorValue(arm.ret, nb.byte,
                                              in_pos + 1, out_pos'))
    /\ UNCHANGED <<input, in_start, out_start, calls>>

Next == Call \/ Iteration

Spec == Init /\ [][Next]_vars

\* parse is synchronous: once called, the loop runs on until it returns.
FairSpec == Spec /\ WF_vars(Iteration)

TypeOK ==
    /\ pc \in {"idle", "loop", "returned"}
    /\ state \in StateExpecting
    /\ first_digit_is_zero \in BOOLEAN
    /\ result.kind \in ErrorKinds \cup {"None", "Ok"}
    /\ in_pos \in 0..Len(input)
    /\ out_pos = Len(output)

\* -------------------------------------------------------------------------
\* What the properties speak of

\* The stream as the current call of parse found it.
Stream == SubSeq(input, in_start + 1, Len(input))

\* The bytes the current call has consumed, and the bytes it has written.
Consumed == SubSeq(input, in_start + 1, in_pos)

Written == SubSeq(output, out_start + 1, Len(output))

Returned == pc = "returned"

\* The call met no I/O failure, on either side.
NoIoFailure == result.kind # "Io"

IsDigits(s) == \A k \in 1..Len(s) : s[k] \in BYTE_ZERO..BYTE_NINE

\* A digit run that is exactly "0" or does not start with '0'.
NoLeadingZero(d) == Len(d) >= 1 /\ (d = <<BYTE_ZERO>> \/ d[1] # BYTE_ZERO)

\* Index of the first terminator after the opening marker, 0 when none.
FirstEnd(s) ==
    LET ends == {k \in 2..Len(s) : s[k] = BENCODE_END_INTEGER}
    IN  IF ends = {} THEN 0
        ELSE CHOOSE k \in ends : \A j \in ends : k <= j

\* The encoded integer the stream starts with: through the first terminator.
Encoded == SubSeq(Stream, 1, FirstEnd(Stream))

IsNegative(w) == Len(w) >= 2 /\ w[2] = BYTE_MINUS

\* The digit run of 'i' [ '-' ] <digits> 'e'.
DigitsOf(w) == SubSeq(w, IF IsNegative(w) THEN 3 ELSE 2, Len(w) - 1)

\* 'i' [ '-' ] <digits> 'e', <digits> non-empty, "0" or not starting with '0'.
ValidInteger(w) ==
    /\ Len(w) >= 3
    /\ w[1] = BYTE_I
    /\ w[Len(w)] = BENCODE_END_INTEGER
    /\ IsDigits(DigitsOf(w))
    /\ NoLeadingZero(DigitsOf(w))

RECURSIVE DigitsValue(_)
DigitsValue(d) ==
    IF d = <<>> THEN 0
    ELSE 10 * DigitsValue(SubSeq(d, 1, Len(d) - 1)) + (d[Len(d)] - BYTE_ZERO)

\* The number N that 'i' [ '-' ] <digits> 'e' encodes.
NumberOf(w) ==
    IF IsNegative(w) THEN 0 - DigitsValue(DigitsOf(w))
    ELSE DigitsValue(DigitsOf(w))

RECURSIVE NatToDecimal(_)
NatToDecimal(n) ==
    IF n < 10 THEN <<BYTE_ZERO + n>>
    ELSE Append(NatToDecimal(n \div 10), BYTE_ZERO + (n % 10))

\* The minimal decimal representation of the integer n.
ToDecimal(n) ==
    IF n < 0 THEN <<BYTE_MINUS>> \o NatToDecimal(0 - n) ELSE NatToDecimal(n)

\* The stream starts with a valid integer, and the call returned without
\* an I/O failure.
ValidCase ==
    /\ Returned
    /\ NoIoFailure
    /\ FirstEnd(Stream) > 0
    /\ ValidInteger(Encoded)

\* -------------------------------------------------------------------------
\* C1

\* C1 as stated: for every input 'i' [ '-' ] <digits> 'e' whose digit run is
\* "0" or does not start with '0', parse returns Ok and the bytes written are
\* the minimal decimal representation of the encoded number N.
C1_Original ==
    ValidCase =>
        /\ result.kind = "Ok"
        /\ Written = ToDecimal(NumberOf(Encoded))

\* C1, amended: for every such input parse returns Ok, and the bytes written
\* are the minimal decimal representation of N, except for i-0e, where the
\* sign is kept and the bytes written are "-0".
C1_ValidIntegerOutput ==
    ValidCase =>
        /\ result.kind = "Ok"
        /\ Written = IF IsNegative(Encoded) /\ NumberOf(Encoded) = 0
                     THEN <<BYTE_MINUS, BYTE_ZERO>>
                     ELSE ToDecimal(NumberOf(Encoded))

\* i-100e was parsed: Ok, and "-100" written.
C1_Witness ==
    /\ ValidCase
    /\ Encoded = <<BYTE_I, BYTE_MINUS, 49, BYTE_ZERO, BYTE_ZERO,
                   BENCODE_END_INTEGER>>
    /\ result.kind = "Ok"
    /\ Written = <<BYTE_MINUS, 49, BYTE_ZERO, BYTE_ZERO>>

\* -------------------------------------------------------------------------
\* C2

\* The digits the current call has consumed: what follows the marker and an
\* optional sign.
ConsumedRun ==
    SubSeq(Consumed, IF IsNegative(Consumed) THEN 3 ELSE 2, Len(Consumed))

\* The first digit consumed was '0' and a further ASCII digit was read in
\* the same run.
DigitAfterFirstZero ==
    /\ pc \in {"loop", "returned"}
    /\ Len(Consumed) >= 1
    /\ Consumed[1] = BYTE_I
    /\ Len(ConsumedRun) >= 2
    /\ ConsumedRun[1] = BYTE_ZERO
    /\ ConsumedRun[2] \in BYTE_ZERO..BYTE_NINE

\* C2: once the first digit of the integer is '0', any further ASCII digit
\* read in the same run makes parse fail with LeadingZerosInIntegersNotAllowed
\* (i00e, i-00e, i01e, i-05e are all rejected, none returns Ok).
C2_AnyDigitAfterZeroRejected ==
    (DigitAfterFirstZero /\ NoIoFailure) =>
        /\ Returned
        /\ result.kind = "LeadingZerosInIntegersNotAllowed"

\* -------------------------------------------------------------------------
\* C3

\* A JSON number in minimal form: an optional '-', then "0" or a digit run
\* that does not start with '0', and nothing else.
MinimalJsonNumber(s) ==
    LET d == IF s # <<>> /\ s[1] = BYTE_MINUS THEN Tail(s) ELSE s
    IN  IsDigits(d) /\ NoLeadingZero(d)

\* C3: whenever parse returns Ok, the bytes it wrote are a JSON number in
\* minimal form.
C3_OkOutputIsMinimalJsonNumber ==
    (Returned /\ result.kind = "Ok") => MinimalJsonNumber(Written)

\* -------------------------------------------------------------------------
\* C10

\* C10: when parse fails with LeadingZerosInIntegersNotAllowed the offending
\* digit has not been written: the call's output is "0" or "-0", and the
\* write context's pos counts only those bytes.
C10_LeadingZerosRaisedBeforeEmission ==
    (Returned /\ result.kind = "LeadingZerosInIntegersNotAllowed") =>
        /\ Written \in {<<BYTE_ZERO>>, <<BYTE_MINUS, BYTE_ZERO>>}
        /\ result.write.pos = out_start + Len(Written)

\* -------------------------------------------------------------------------
\* C4

\* A byte that is illegal for a state.
IllegalByte(st, byte) ==
    CASE st = "Start" -> FALSE
      [] st = "DigitOrSign" ->
            byte # BYTE_MINUS /\ byte \notin BYTE_ZERO..BYTE_NINE
      [] st = "DigitAfterSign" -> byte \notin BYTE_ZERO..BYTE_NINE
      [] st = "DigitOrEnd" ->
            byte \notin BYTE_ZERO..BYTE_NINE /\ byte # BENCODE_END_INTEGER

\* An iteration returns UnexpectedByteParsingInteger exactly when it read a
\* byte that is illegal for the state it was in.
UnexpectedByteExactlyWhenIllegal ==
    pc = "loop" =>
        ((pc' = "returned" /\ result'.kind = "UnexpectedByteParsingInteger")
         <=> (last_read' = "Byte" /\ IllegalByte(state, input[in_pos + 1])))

\* ia, iae, i-a, i-e, ie, i-1a
UnexpectedByteExamples ==
    { <<BYTE_I, BYTE_A>>, <<BYTE_I, BYTE_A, BENCODE_END_INTEGER>>,
      <<BYTE_I, BYTE_MINUS, BYTE_A>>,
      <<BYTE_I, BYTE_MINUS, BENCODE_END_INTEGER>>,
      <<BYTE_I, BENCODE_END_INTEGER>>,
      <<BYTE_I, BYTE_MINUS, 49, BYTE_A>> }

\* C4: parse returns UnexpectedByteParsingInteger exactly when it reads a
\* byte that is illegal for its current state (DigitOrSign: neither '-' nor a
\* digit; DigitAfterSign: not a digit; DigitOrEnd: neither a digit nor 'e');
\* so ia, iae, i-a, i-e, ie and i-1a all fail with that error.
C4_UnexpectedByte ==
    /\ [][UnexpectedByteExactlyWhenIllegal]_vars
    /\ []((Returned /\ NoIoFailure /\ Stream \in UnexpectedByteExamples)
             => result.kind = "UnexpectedByteParsingInteger")

\* i-e was rejected in DigitAfterSign, at the terminator.
C4_Witness ==
    /\ Returned
    /\ result.kind = "UnexpectedByteParsingInteger"
    /\ state = "DigitAfterSign"
    /\ Consumed = <<BYTE_I, BYTE_MINUS, BENCODE_END_INTEGER>>

\* -------------------------------------------------------------------------
\* C5

\* The empty input, or a proper prefix of a valid integer: i, i-, i4, i42.
ProperPrefixOfValid(s) ==
    \/ s = <<>>
    \/ /\ s[1] = BYTE_I
       /\ LET r == Tail(s)
              d == IF r # <<>> /\ r[1] = BYTE_MINUS THEN Tail(r) ELSE r
          IN  IsDigits(d) /\ (d = <<>> \/ NoLeadingZero(d))

C6_IoFailureSurfacesAsIo ==
    last_read = "Other" =>
        /\ Returned
        /\ result.kind = "Io"
        /\ reads = (in_pos - in_start) + 1

\* The source failed after i4 was consumed, in DigitOrEnd.
C6_Witness ==
    /\ last_read = "Other"
    /\ state = "DigitOrEnd"
    /\ Consumed = <<BYTE_I, 52>>
    /\ result.kind = "Io"

\* -------------------------------------------------------------------------
\* C7

\* C7: when parse returns Ok it has consumed the bytes from the marker
\* through the first terminator and not one more: the reader's counter grew
\* by the encoded length L, the next read_byte yields the byte after 'e',
\* and the writer's counter grew by L - 2.
C7_ConsumesExactlyTheInteger ==
    (Returned /\ result.kind = "Ok") =>
        LET L == FirstEnd(Stream)
        IN  /\ L >= 3
            /\ in_pos = in_start + L
            /\ out_pos = out_start + (L - 2)
            /\ Len(Stream) > L =>
                  read_byte(input, in_pos, FALSE)
                      = [kind |-> "Byte", byte |-> Stream[L + 1]]

\* The first call on i0ei5e returned Ok: 3 bytes consumed, 1 written, and
\* the stream goes on.
C7_Witness ==
    /\ Returned
    /\ result.kind = "Ok"
    /\ input = <<BYTE_I, BYTE_ZERO, BENCODE_END_INTEGER,
                 BYTE_I, 53, BENCODE_END_INTEGER>>
    /\ in_start = 0
    /\ in_pos = 3
    /\ out_pos = 1

\* -------------------------------------------------------------------------
\* C8

GrammarErrors ==
    {"UnexpectedByteParsingInteger", "LeadingZerosInIntegersNotAllowed"}

\* C8: a grammar error carries the last byte consumed as the read context's
\* byte and the two counters as they are when parse returns: nothing is read
\* or written after the failure is detected.
C8_GrammarErrorContexts ==
    (Returned /\ result.kind \in GrammarErrors) =>
        /\ last_read = "Byte"
        /\ in_pos > in_start
        /\ result.read.byte = Some(input[in_pos])
        /\ result.read.pos = in_pos
        /\ result.write.pos = out_pos
        /\ reads = in_pos - in_start

\* i-00e was rejected at its fourth byte, three bytes written.
C8_Witness ==
    /\ Returned
    /\ result.kind = "LeadingZerosInIntegersNotAllowed"
    /\ Stream = <<BYTE_I, BYTE_MINUS, BYTE_ZERO, BYTE_ZERO,
                  BENCODE_END_INTEGER>>
    /\ in_start = 0
    /\ result.read = Context(Some(BYTE_ZERO), 4)
    /\ result.write.pos = 3

\* -------------------------------------------------------------------------
\* C9

C11_OutputIsVerbatim ==
    (Returned /\ result.kind = "Ok") =>
        /\ Len(Consumed) >= 3
        /\ Consumed[Len(Consumed)] = BENCODE_END_INTEGER
        /\ Written = SubSeq(Consumed, 2, Len(Consumed) - 1)

\* i42e was parsed: "42" written, not "i42", not "42e".
C11_Witness ==
    /\ Returned
    /\ result.kind = "Ok"
    /\ Consumed = <<BYTE_I, 52, 50, BENCODE_END_INTEGER>>
    /\ Written = <<52, 50>>

\* -------------------------------------------------------------------------
\* C12

\* C12: at the start of every loop iteration after the first, the bytes the
\* call has written are the bytes it has consumed after the marker, one
\* written per accepted byte: no sign or digit is held back.
C12_EmittedIncrementally ==
    (pc = "loop" /\ reads >= 1) =>
        /\ Len(Written) = Len(Consumed) - 1
        /\ Written = Tail(Consumed)

\* i-1 consumed, the terminator not yet read: "-1" is already written.
C12_Witness ==
    /\ pc = "loop"
    /\ Stream = <<BYTE_I, BYTE_MINUS, 49, BENCODE_END_INTEGER>>
    /\ Consumed = <<BYTE_I, BYTE_MINUS, 49>>
    /\ Written = <<BYTE_MINUS, 49>>

\* -------------------------------------------------------------------------
\* C13

\* i-0e
MinusZero == <<BYTE_I, BYTE_MINUS, BYTE_ZERO, BENCODE_END_INTEGER>>

\* C13: i-0e is accepted: parse returns Ok and writes "-0"; reading '-' does
\* not set first_digit_is_zero, the '0' that follows is the first digit.
C13_MinusZeroAccepted ==
    /\ (Returned /\ NoIoFailure /\ FirstEnd(Stream) = 4 /\ Encoded = MinusZero)
          => (result.kind = "Ok" /\ Written = <<BYTE_MINUS, BYTE_ZERO>>)
    /\ (pc = "loop" /\ Consumed = <<BYTE_I, BYTE_MINUS>>)
          => (state = "DigitAfterSign" /\ ~first_digit_is_zero)

C13_Witness ==
    /\ Returned
    /\ Stream = MinusZero
    /\ result.kind = "Ok"
    /\ Written = <<BYTE_MINUS, BYTE_ZERO>>
    /\ first_digit_is_zero

\* -------------------------------------------------------------------------
\* C14

\* An iteration that goes round again moves the state forward along
\* Start -> DigitOrSign -> (DigitAfterSign ->) DigitOrEnd; DigitAfterSign is
\* entered only on '-'; an iteration that returns leaves the state alone.
StateMovesForward ==
    /\ (pc = "loop" /\ pc' = "loop") =>
          \/ state = "Start" /\ state' = "DigitOrSign"
          \/ /\ state = "DigitOrSign"
             /\ state' = "DigitAfterSign"
             /\ input[in_pos + 1] = BYTE_MINUS
          \/ state = "DigitOrSign" /\ state' = "DigitOrEnd"
          \/ state = "DigitAfterSign" /\ state' = "DigitOrEnd"
          \/ state = "DigitOrEnd" /\ state' = "DigitOrEnd"
    /\ (pc = "loop" /\ pc' = "returned") => state' = state

\* Start holds exactly until the first byte is consumed, DigitAfterSign
\* exactly for the byte after the sign; '-' is written at most once and
\* first; Ok comes from DigitOrEnd, with a digit written.
StateShape ==
    /\ pc \in {"loop", "returned"} => (state = "Start" <=> Consumed = <<>>)
    /\ (pc = "loop" /\ state = "DigitAfterSign") =>
          (Len(Consumed) = 2 /\ Consumed[2] = BYTE_MINUS)
    /\ \A k \in 2..Len(Written) : Written[k] # BYTE_MINUS
    /\ (Returned /\ result.kind = "Ok") =>
          /\ state = "DigitOrEnd"
          /\ \E k \in 1..Len(Written) : Written[k] \in BYTE_ZERO..BYTE_NINE

\* C14: within one call the state only moves forward along
\* Start -> DigitOrSign -> (DigitAfterSign ->) DigitOrEnd; so at most one '-'
\* is written, and only first, and Ok is returned only from DigitOrEnd,
\* after at least one digit was written.
C14_StateOnlyMovesForward ==
    /\ [][StateMovesForward]_vars
    /\ []StateShape

\* i-1e went through all four states and returned Ok from DigitOrEnd.
C14_Witness ==
    /\ Returned
    /\ result.kind = "Ok"
    /\ state = "DigitOrEnd"
    /\ Consumed = <<BYTE_I, BYTE_MINUS, 49, BENCODE_END_INTEGER>>
    /\ Written = <<BYTE_MINUS, 49>>

\* -------------------------------------------------------------------------
\* C15

\* C15: the opening marker is not validated: parsing b followed by w gives
\* the same result and the same written bytes as parsing 'i' followed by w,
\* whatever the byte b; x42e returns Ok with output 42.
C15_MarkerNotValidated ==
    /\ (Returned /\ NoIoFailure /\ Stream # <<>>) =>
          LET withI == parse(<<BYTE_I>> \o Tail(Stream))
          IN  /\ result.kind = withI.kind
              /\ Written = withI.written
    /\ (Returned /\ NoIoFailure
           /\ Stream = <<120, 52, 50, BENCODE_END_INTEGER>>) =>
          (result.kind = "Ok" /\ Written = <<52, 50>>)

\* x42e was parsed: Ok and "42", as for i42e.
C15_Witness ==
    /\ Returned
    /\ Stream = <<120, 52, 50, BENCODE_END_INTEGER>>
    /\ result.kind = "Ok"
    /\ Written = <<52, 50>>
    /\ parse(<<BYTE_I, 52, 50, BENCODE_END_INTEGER>>)
         = [kind |-> "Ok", written |-> <<52, 50>>]

\* -------------------------------------------------------------------------
\* C16

\* i0ei0e, i0ei5e, i0ei10e
TwoIntegers ==
    { <<BYTE_I, BYTE_ZERO, BENCODE_END_INTEGER,
        BYTE_I, BYTE_ZERO, BENCODE_END_INTEGER>>,
      <<BYTE_I, BYTE_ZERO, BENCODE_END_INTEGER,
        BYTE_I, 53, BENCODE_END_INTEGER>>,
      <<BYTE_I, BYTE_ZERO, BENCODE_END_INTEGER,
        BYTE_I, 49, BYTE_ZERO, BENCODE_END_INTEGER>> }

\* C16: each call of parse starts from fresh automaton state (Start, flag
\* false), nothing carries over between calls on the same reader and writer:
\* two calls on i0ei0e return Ok twice and leave the output 00, two calls on
\* i0ei5e return Ok twice.
C16_FreshStatePerCall ==
    /\ (pc = "loop" /\ reads = 0) =>
          (state = "Start" /\ ~first_digit_is_zero)
    /\ (Returned /\ NoIoFailure /\ input \in TwoIntegers /\ calls = 1) =>
          (result.kind = "Ok" /\ in_pos = 3 /\ output = <<BYTE_ZERO>>)
    /\ (Returned /\ NoIoFailure /\ input \in TwoIntegers /\ calls = 2
           /\ in_start = 3) =>
          /\ result.kind = "Ok"
          /\ output = <<BYTE_ZERO>> \o SubSeq(input, 5, Len(input) - 1)

\* The second call on i0ei0e returned Ok; the output is 00.
C16_Witness ==
    /\ Returned
    /\ calls = 2
    /\ input = <<BYTE_I, BYTE_ZERO, BENCODE_END_INTEGER,
                 BYTE_I, BYTE_ZERO, BENCODE_END_INTEGER>>
    /\ in_start = 3
    /\ result.kind = "Ok"
    /\ output = <<BYTE_ZERO, BYTE_ZERO>>

\* -------------------------------------------------------------------------
\* C17

\* Each iteration makes one read_byte; a call on a stream of n bytes makes at
\* most n + 1 attempts; the loop goes round again only while every byte
\* consumed after the marker was a sign or a digit, so it does not run past
\* a terminator or an illegal byte.
ReadsBounded ==
    /\ pc \in {"loop", "returned"} => reads <= Len(Stream) + 1
    /\ pc = "loop" => reads = Len(Consumed)
    /\ Returned => reads \in {Len(Consumed), Len(Consumed) + 1}
    /\ pc = "loop" =>
          \A k \in 2..Len(Consumed) :
              Consumed[k] = BYTE_MINUS \/ Consumed[k] \in BYTE_ZERO..BYTE_NINE

ByteStep ==
    /\ pc = "loop"
    /\ last_read' = "Byte"
    /\ ~(pc' = "returned" /\ result'.kind = "Io")

\* What the iteration did: continued or returned what, in which state, and
\* whether it emitted the byte.
StepOutcome ==
    [ret |-> IF pc' = "loop" THEN "Continue" ELSE result'.kind,
     next |-> state',
     write |-> out_pos' = out_pos + 1]

\* The iteration does what every execution that is in the same state does
\* on the same byte.
SameAsEveryExecution ==
    \A x \in LoopLocals :
        x.state = state =>
            StepOutcome = ArmOutcome(Transition(state, input[in_pos + 1], x.zero))

RejectedByteReportedNotWritten ==
    (pc = "loop" /\ pc' = "returned"
       /\ result'.kind = "UnexpectedByteParsingInteger") =>
        /\ result'.write.byte = Some(input[in_pos + 1])
        /\ result'.write.byte = result'.read.byte
        /\ output' = output
        /\ out_pos' = out_pos
        /\ result'.write.pos = out_pos

\* C19: in every UnexpectedByteParsingInteger error the write context's byte
\* is the rejected input byte, the same as the read context's, although that
\* byte was never written: the step that read it leaves the writer's output
\* and position counter unchanged.
C19_RejectedByteInWriteContext ==
    /\ [][RejectedByteReportedNotWritten]_vars
    /\ []((Returned /\ result.kind = "UnexpectedByteParsingInteger") =>
             /\ result.write.byte = Some(input[in_pos])
             /\ result.write.pos = Len(output)
             /\ Written = SubSeq(Consumed, 2, Len(Consumed) - 1))

\* i-1a was rejected at 'a': the write context names 'a' at pos 2, and the
\* output is "-1".
C19_Witness ==
    /\ Returned
    /\ result.kind = "UnexpectedByteParsingInteger"
    /\ Stream = <<BYTE_I, BYTE_MINUS, 49, BYTE_A>>
    /\ result.write = Context(Some(BYTE_A), 2)
    /\ Written = <<BYTE_MINUS, 49>>

====
